---- MODULE Spec2Model ----
(***************************************************************************)
(* Model of src/server.py: the graph-db-eval FastAPI service.              *)
(*                                                                         *)
(* The service is one asyncio event loop.  A coroutine runs without        *)
(* interruption until it awaits something that really suspends, so the     *)
(* variable loop names the request that currently holds the event loop     *)
(* (0 when the loop is free).  The only await that suspends is             *)
(* conn.execute of the embedded adapter (line 121); the remote adapter     *)
(* calls the synchronous client.execute_query (line 183) and therefore     *)
(* keeps the loop from its first line to its return.                       *)
(*                                                                         *)
(* The lifespan context manager (lines 33-58) is driven by the ASGI        *)
(* server: its first half runs before any request is dispatched; its       *)
(* second half runs at shutdown.  Nothing in server.py orders the second   *)
(* half after the requests, so requests may be suspended across it and     *)
(* may start after it.                                                     *)
(*                                                                         *)
(* Text is modelled as a sequence of tokens; concatenation is \o.          *)
(* Durations are integers in units of 10^-5 seconds.                       *)
(***************************************************************************)
EXTENDS Integers, Sequences, FiniteSets

\* number of requests the service receives in a run
NReq == 2

Req == 1..NReq

\* ----------------------------------------------------------------------
\* Environment (os.getenv) and its defaults
\* ----------------------------------------------------------------------
Unset == "<unset>"

\* os.getenv(name, default)
Getenv(e, name, default) == IF e[name] = Unset THEN default ELSE e[name]

\* os.path.dirname(__file__)
ModuleDir == "/repo/src"

\* the default environment: none of the three settings is set
DefaultEnv == [KUZU_DB_PATH |-> Unset, MEMGRAPH_DB_HOST |-> Unset, MEMGRAPH_DB_PORT |-> Unset]

\* the environments of the runs explored: the default one, and one that
\* sets a database path and a port that is not a number
EnvChoices ==
  {DefaultEnv,
   [KUZU_DB_PATH |-> "/data/kuzu", MEMGRAPH_DB_HOST |-> Unset, MEMGRAPH_DB_PORT |-> "76x"]}

\* ----------------------------------------------------------------------
\* The embedded engine (kuzu) as the code uses it
\* ----------------------------------------------------------------------
\* the value None
None == [open |-> FALSE, path |-> ""]

\* kuzu.Database(path): an open database object
Database(path) == [open |-> TRUE, path |-> path]

\* kuzu.Database(): no path, an in-memory database
MemoryPath == ":memory:"

NoExc == [type |-> "", msg |-> ""]
Exc(type, msg) == [type |-> type, msg |-> msg]

NoConn == [database |-> None, live |-> FALSE]

\* a constructor that defers every use of the database to the first query
AsyncConnectionLazy(database) ==
  [ok |-> TRUE, conn |-> [database |-> database, live |-> TRUE], exc |-> NoExc]

\* kuzu.AsyncConnection(database): the connection keeps a reference to the
\* database object it was built on; on None the constructor raises
AsyncConnection(database) ==
  IF database.open
  THEN [ok |-> TRUE, conn |-> [database |-> database, live |-> TRUE], exc |-> NoExc]
  ELSE [ok |-> FALSE, conn |-> NoConn,
        exc |-> Exc("AttributeError", "'NoneType' object has no attribute 'init_database'")]

\* the query strings sent in the runs explored
Q_Return1 == "RETURN 1"
Q_Match   == "MATCH (p:Person) RETURN p.name, p.id"
Q_Invalid == "INVALID SYNTAX HERE"
Q_Multi   == "RETURN 1; RETURN 2"
Queries == {Q_Return1, Q_Match, Q_Invalid, Q_Multi}

NoResult == [kind |-> "none", keys |-> << >>, rows |-> << >>, exc |-> NoExc]
Table(keys, rows) == [kind |-> "table", keys |-> keys, rows |-> rows, exc |-> NoExc]
Raises(e) == [kind |-> "raise", keys |-> << >>, rows |-> << >>, exc |-> e]

\* await conn.execute(query): what the engine answers for each query.
\* The database at the configured path holds two Person nodes; the
\* in-memory database holds nothing.  Several statements in one string give
\* a list of results instead of one result.
KuzuExecute(conn, q) ==
  CASE ~conn.live -> Raises(Exc("RuntimeError", "Connection is closed."))
    [] q = Q_Return1 -> Table(<<"1">>, << <<"1">> >>)
    [] q = Q_Match ->
         IF conn.database.path = MemoryPath
         THEN Raises(Exc("RuntimeError", "Binder exception: Table Person does not exist."))
         ELSE Table(<<"p.name", "p.id">>, << <<"Bob", "2">>, <<"Ann", "1">> >>)
    [] q = Q_Invalid -> Raises(Exc("RuntimeError", "Parser exception: Invalid input <INVALID>"))
    [] OTHER -> [kind |-> "list", keys |-> << >>, rows |-> << >>, exc |-> NoExc]

\* ----------------------------------------------------------------------
\* The remote server (Memgraph through the neo4j driver)
\* ----------------------------------------------------------------------
\* f"bolt://{host}:{port}"
HostName(e) ==
  <<"bolt://", Getenv(e, "MEMGRAPH_DB_HOST", "localhost"), ":",
    Getenv(e, "MEMGRAPH_DB_PORT", "7687")>>

\* GraphDatabase.driver(uri, auth=auth): parsing the address fails on a
\* port that is not a number
DriverCreate(uri) ==
  IF uri[4] \in {"7687", "7688"}
  THEN [ok |-> TRUE, exc |-> NoExc]
  ELSE [ok |-> FALSE, exc |-> Exc("ValueError", "Port could not be cast to integer value")]

\* client.execute_query(query): records, summary, keys
MgExecute(q) ==
  CASE q = Q_Return1 -> Table(<<"1">>, << <<"1">> >>)
    [] q = Q_Match -> Table(<<"p.name", "p.id">>, << <<"Bob", "2">>, <<"Ann", "1">> >>)
    [] q = Q_Invalid -> Raises(Exc("ClientError", "mismatched input 'INVALID'"))
    [] OTHER -> Raises(Exc("ClientError", "extraneous input ';'"))

\* ----------------------------------------------------------------------
\* Timer (codetiming) and the text of a response
\* ----------------------------------------------------------------------
\* the durations (in 10^-5 s) a query takes in the runs explored; none lies
\* on a rounding tie, where the binary value of the float decides
Durations == {4, 100127}

NewTimer == [running |-> FALSE, starts |-> 0, stops |-> 0, last |-> -1]
TimerStart(tm) == [tm EXCEPT !.running = TRUE, !.starts = @ + 1]
TimerStop(tm, d) == [tm EXCEPT !.running = FALSE, !.stops = @ + 1, !.last = d]

\* round(x, 4): x in 10^-5 s, the result in 10^-4 s
Round4(d) == (d + 5) \div 10

Digit(k) == <<"0", "1", "2", "3", "4", "5", "6", "7", "8", "9">>[k + 1]

RECURSIVE NatStr(_)
NatStr(n) == IF n < 10 THEN <<Digit(n)>> ELSE NatStr(n \div 10) \o <<Digit(n % 10)>>

\* f in 10^-4 units written with exactly w digits
RECURSIVE FixedStr(_, _)
FixedStr(f, w) ==
  IF w = 1 THEN <<Digit(f % 10)>> ELSE FixedStr(f \div 10, w - 1) \o <<Digit(f % 10)>>

\* the digits of a fraction of width w without its trailing zeros (at least
\* one digit is kept)
RECURSIVE FracStr(_, _)
FracStr(f, w) ==
  IF w > 1 /\ f % 10 = 0 THEN FracStr(f \div 10, w - 1) ELSE FixedStr(f, w)

\* str(x) of a float x given in 10^-4 units: "0.0", "1.0013", "2.5"
FloatStr(n) == NatStr(n \div 10000) \o <<".">> \o FracStr(n % 10000, 4)

RECURSIVE RowsStr(_, _)
RowsStr(rows, i) ==
  IF i > Len(rows) THEN << >>
  ELSE <<"\n", NatStr(i - 1)>> \o rows[i] \o RowsStr(rows, i + 1)

\* DataFrame.to_string(): the column names in order, then one line per row
\* in order, each led by its index
to_string(keys, rows) ==
  IF Len(rows) = 0
  THEN <<"Empty DataFrame", "\n", "Columns: ">> \o keys \o <<"\n", "Index: []">>
  ELSE <<"">> \o keys \o RowsStr(rows, 1)

\* line 127
KuzuBody(last, keys, rows) ==
  <<"Elapsed time: ">> \o FloatStr(Round4(last)) \o <<"s">> \o to_string(keys, rows)

\* line 189
MgBody(last, keys, rows) ==
  <<"Elapsed time: ">> \o FloatStr(Round4(last)) \o <<"s", "\n">> \o to_string(keys, rows)

Prefix == "Exception: Request failure."

\* the description alone, without the prefix
ErrorBodyBare(e) == <<e.msg>>

\* f'Exception: Request failure. {str(e)}'
ErrorBody(e) == <<Prefix, " ", e.msg>>

\* a clause that names one exception class only
CaughtRuntimeErrorOnly(e) == e.type = "RuntimeError"

\* except Exception: every failure the backends raise derives from Exception
Caught(e) == TRUE

\* ----------------------------------------------------------------------
\* State
\* ----------------------------------------------------------------------
VARIABLES
  env,        \* the process environment read by os.getenv
  startEnv,   \* history: the environment as it was when lifespan read it
  db,         \* the module-level handle (line 30)
  phase,      \* lifespan: "init", "serving", "stopped", or "failed"
  loop,       \* the request that holds the event loop, 0 when it is free
  req,        \* per request: position and local variables of its handler
  responses,  \* per request: the PlainTextResponse objects returned
  drivers,    \* every neo4j driver created so far: owner, address, open
  dbWrites,   \* history: number of assignments to db made by lifespan
  shutDuring  \* history: the requests that were suspended when shutdown ran

vars == <<env, startEnv, db, phase, loop, req, responses, drivers, dbWrites, shutDuring>>

\* no query has been handed to a backend
NotSent == "<not sent>"

IdleReq ==
  [pc |-> "idle", kind |-> "", query |-> "", status_code |-> 0, ret_val |-> << >>,
   db_conn |-> NoConn, client |-> 0, exc |-> NoExc, t |-> NewTimer,
   result |-> NoResult, seenDb |-> None, readsDb |-> 0, afterFailure |-> FALSE,
   overlap |-> FALSE, sent |-> NotSent, verified |-> FALSE, log |-> << >>]

\* line 30: the handle starts as Database(), an open in-memory database
Init ==
  /\ env \in EnvChoices
  /\ startEnv = env
  /\ db = Database(MemoryPath)
  /\ phase = "init"
  /\ loop = 0
  /\ req = [r \in Req |-> IdleReq]
  /\ responses = [r \in Req |-> << >>]
  /\ drivers = << >>
  /\ dbWrites = 0
  /\ shutDuring = {}

\* ----------------------------------------------------------------------
\* lifespan (lines 33-58)
\* ----------------------------------------------------------------------
\* line 44: db_path = os.getenv('KUZU_DB_PATH', os.path.dirname(__file__))
ConfiguredPath == Getenv(env, "KUZU_DB_PATH", ModuleDir)

\* a startup that opens the database without giving the path
StartupUnconfigured ==
  /\ phase = "init"
  /\ loop = 0
  /\ \E opens \in BOOLEAN :
       IF opens
       THEN /\ db' = Database(MemoryPath)
            /\ dbWrites' = dbWrites + 1
            /\ phase' = "serving"
       ELSE /\ phase' = "failed"
            /\ UNCHANGED <<db, dbWrites>>
  /\ startEnv' = env
  /\ UNCHANGED <<env, loop, req, responses, drivers, shutDuring>>

\* lines 41-52: open the database at the configured path and publish it.
\* kuzu.Database(path) may raise (no such directory, lock held, corrupt
\* files); the exception leaves lifespan, and the application never starts.
Startup ==
  /\ phase = "init"
  /\ loop = 0
  /\ \E opens \in BOOLEAN :
       IF opens
       THEN /\ db' = Database(ConfiguredPath)
            /\ dbWrites' = dbWrites + 1
            /\ phase' = "serving"
       ELSE /\ phase' = "failed"
            /\ UNCHANGED <<db, dbWrites>>
  /\ startEnv' = env
  /\ UNCHANGED <<env, loop, req, responses, drivers, shutDuring>>

\* a shutdown that puts back the placeholder of line 30 instead of None
ShutdownToPlaceholder ==
  /\ phase = "serving"
  /\ loop = 0
  /\ db' = Database(MemoryPath)
  /\ dbWrites' = dbWrites + 1
  /\ phase' = "stopped"
  /\ shutDuring' = {r \in Req : req[r].pc = "kz_await"}
  /\ UNCHANGED <<env, startEnv, loop, req, responses, drivers>>

\* a shutdown that closes the database under the requests in flight
\* (db.close() before db = None)
ShutdownClosing ==
  /\ phase = "serving"
  /\ loop = 0
  /\ db' = None
  /\ dbWrites' = dbWrites + 1
  /\ phase' = "stopped"
  /\ shutDuring' = {r \in Req : req[r].pc = "kz_await"}
  /\ req' = [r \in Req |-> IF req[r].pc = "kz_await"
                            THEN [req[r] EXCEPT !.db_conn.live = FALSE] ELSE req[r]]
  /\ UNCHANGED <<env, startEnv, loop, responses, drivers>>

\* lines 57-58: db = None
Shutdown ==
  /\ phase = "serving"
  /\ loop = 0
  /\ db' = None
  /\ dbWrites' = dbWrites + 1
  /\ phase' = "stopped"
  /\ shutDuring' = {r \in Req : req[r].pc = "kz_await"}
  /\ UNCHANGED <<env, startEnv, loop, req, responses, drivers>>

\* an application built without the lifespan argument
AcceptingAlways == TRUE

\* line 61: FastAPI(lifespan=lifespan) dispatches requests only once the
\* first half of lifespan has completed
Accepting == phase \in {"serving", "stopped"}

\* ----------------------------------------------------------------------
\* Steps shared by both handlers
\* ----------------------------------------------------------------------
\* number of requests answered 500 so far
Failures == Cardinality({r \in Req : Len(responses[r]) > 0 /\ responses[r][1].status_code = 500})

\* lines 72-76 and 135-139: status_code = 200, ret_val = ""
Enter(r, k, q, first) ==
  [IdleReq EXCEPT !.pc = first, !.kind = k, !.query = q, !.status_code = 200,
                  !.afterFailure = (Failures > 0)]

\* a call of logger.info or logger.exception: what is logged and its text
Log(rq, what, text) == [rq EXCEPT !.log = Append(@, [what |-> what, text |-> text])]

\* an exception is raised inside the try block
Raise(rq, e) == [rq EXCEPT !.pc = "raised", !.exc = e]

\* lines 92-99 and 155-162: the except clause.  An exception the clause
\* does not catch leaves the handler.
Except(r) ==
  /\ loop = r
  /\ req[r].pc = "raised"
  /\ IF Caught(req[r].exc)
     THEN /\ req' = [req EXCEPT ![r] =
                         [Log(req[r], "failure", <<Prefix, req[r].exc.msg>>)
                            EXCEPT !.ret_val = ErrorBody(req[r].exc),
                                   !.status_code = 500,
                                   !.pc = "return"]]
          /\ UNCHANGED loop
     ELSE /\ req' = [req EXCEPT ![r].pc = "crashed"]
          /\ loop' = 0
  /\ UNCHANGED <<env, startEnv, db, phase, responses, drivers, dbWrites, shutDuring>>

\* lines 102 and 165: return PlainTextResponse(content=ret_val, status_code=status_code)
Return(r) ==
  /\ loop = r
  /\ req[r].pc = "return"
  /\ responses' = [responses EXCEPT ![r] =
                     Append(@, [status_code |-> req[r].status_code, content |-> req[r].ret_val])]
  /\ req' = [req EXCEPT ![r].pc = "done"]
  /\ loop' = 0
  /\ UNCHANGED <<env, startEnv, db, phase, drivers, dbWrites, shutDuring>>

\* a query cut at its first semicolon before it is handed down
QueryArgFirstStatement(rq) == IF rq.query = Q_Multi THEN Q_Return1 ELSE rq.query

\* a query kept in one place for all requests
QueryArgShared(rq) == req[1].query

\* the query argument handed down to the adapter (lines 87, 121, 153, 183)
QueryArg(rq) == rq.query

\* ----------------------------------------------------------------------
\* run_kuzu_cypher_query (lines 67-102) and get_kuzu_data (lines 105-127)
\* ----------------------------------------------------------------------
KuzuRequest(r, q) ==
  /\ Accepting
  /\ loop = 0
  /\ req[r].pc = "idle"
  /\ req' = [req EXCEPT ![r] = Enter(r, "kuzu", q, "kz_conn")]
  /\ loop' = r
  /\ UNCHANGED <<env, startEnv, db, phase, responses, drivers, dbWrites, shutDuring>>

\* a handler that opens the database again when it finds the handle cleared
KuzuConnectReopening(r) ==
  /\ loop = r
  /\ req[r].pc = "kz_conn"
  /\ db' = IF db = None THEN Database(ConfiguredPath) ELSE db
  /\ LET c  == AsyncConnection(db')
         rq == [req[r] EXCEPT !.seenDb = db', !.readsDb = @ + 1]
     IN  req' = [req EXCEPT ![r] =
                   IF c.ok THEN [rq EXCEPT !.db_conn = c.conn, !.pc = "kz_submit"]
                   ELSE Raise(rq, c.exc)]
  /\ UNCHANGED <<env, startEnv, phase, loop, responses, drivers, dbWrites, shutDuring>>

\* a handler whose timer is started before the connection is made
KuzuConnectTimed(r) ==
  /\ loop = r
  /\ req[r].pc = "kz_conn"
  /\ LET c  == AsyncConnection(db)
         rq == [req[r] EXCEPT !.seenDb = db, !.readsDb = @ + 1, !.t = TimerStart(NewTimer)]
     IN  req' = [req EXCEPT ![r] =
                   IF c.ok THEN [rq EXCEPT !.db_conn = c.conn, !.pc = "kz_submit"]
                   ELSE Raise([rq EXCEPT !.t = TimerStop(@, 4)], c.exc)]
  /\ UNCHANGED <<env, startEnv, db, phase, loop, responses, drivers, dbWrites, shutDuring>>

\* line 84: db_conn = kuzu.AsyncConnection(db)
KuzuConnect(r) ==
  /\ loop = r
  /\ req[r].pc = "kz_conn"
  /\ LET c  == AsyncConnection(db)
         rq == [req[r] EXCEPT !.seenDb = db, !.readsDb = @ + 1]
     IN  req' = [req EXCEPT ![r] =
                   IF c.ok THEN [rq EXCEPT !.db_conn = c.conn, !.pc = "kz_submit"]
                   ELSE Raise(rq, c.exc)]
  /\ UNCHANGED <<env, startEnv, db, phase, loop, responses, drivers, dbWrites, shutDuring>>

\* lines 113-121: log the query, start the timer, submit the query and
\* await it; the event loop is released
KuzuSubmit(r) ==
  /\ loop = r
  /\ req[r].pc = "kz_submit"
  /\ req' = [x \in Req |->
               IF x = r
               THEN [Log(req[r], "query", <<QueryArg(req[r])>>)
                       EXCEPT !.t = TimerStart(NewTimer), !.pc = "kz_await",
                              !.sent = QueryArg(req[r]),
                              !.overlap = \E y \in Req : req[y].pc = "kz_await"]
               ELSE IF req[x].pc = "kz_await" THEN [req[x] EXCEPT !.overlap = TRUE]
               ELSE req[x]]
  /\ loop' = 0
  /\ UNCHANGED <<env, startEnv, db, phase, responses, drivers, dbWrites, shutDuring>>

\* a request that takes the handle from the global again when it is resumed
KuzuResumeRereading(r) ==
  /\ loop = 0
  /\ req[r].pc = "kz_await"
  /\ \E d \in Durations :
       LET c   == AsyncConnection(db)
           out == IF c.ok THEN KuzuExecute(c.conn, req[r].sent) ELSE Raises(c.exc)
           rq  == [req[r] EXCEPT !.t = TimerStop(@, d), !.readsDb = @ + 1]
       IN  req' = [req EXCEPT ![r] =
                     IF out.kind = "raise" THEN Raise(rq, out.exc)
                     ELSE [rq EXCEPT !.result = out, !.pc = "kz_format"]]
  /\ loop' = r
  /\ UNCHANGED <<env, startEnv, db, phase, responses, drivers, dbWrites, shutDuring>>

\* a timer stopped by a call placed after the awaited call, which an
\* exception skips
KuzuResumeStopOnSuccess(r) ==
  /\ loop = 0
  /\ req[r].pc = "kz_await"
  /\ \E d \in Durations :
       LET out == KuzuExecute(req[r].db_conn, req[r].sent)
           rq  == [req[r] EXCEPT !.t = TimerStop(@, d)]
       IN  req' = [req EXCEPT ![r] =
                     IF out.kind = "raise" THEN Raise(req[r], out.exc)
                     ELSE [rq EXCEPT !.result = out, !.pc = "kz_format"]]
  /\ loop' = r
  /\ UNCHANGED <<env, startEnv, db, phase, responses, drivers, dbWrites, shutDuring>>

\* line 121 completes: the engine answers or raises; leaving the with block
\* stops the timer either way
KuzuResume(r) ==
  /\ loop = 0
  /\ req[r].pc = "kz_await"
  /\ \E d \in Durations :
       LET out == KuzuExecute(req[r].db_conn, req[r].sent)
           rq  == [req[r] EXCEPT !.t = TimerStop(@, d)]
       IN  req' = [req EXCEPT ![r] =
                     IF out.kind = "raise" THEN Raise(rq, out.exc)
                     ELSE [rq EXCEPT !.result = out, !.pc = "kz_format"]]
  /\ loop' = r
  /\ UNCHANGED <<env, startEnv, db, phase, responses, drivers, dbWrites, shutDuring>>

\* line 124 applied to a list of results
ListHasNoDf == Exc("AttributeError", "'list' object has no attribute 'get_as_df'")

\* lines 124-127 and 90: response.get_as_df(), build the text, log it
KuzuFormat(r) ==
  /\ loop = r
  /\ req[r].pc = "kz_format"
  /\ req' = [req EXCEPT ![r] =
               IF req[r].result.kind = "list"
               THEN Raise(req[r], ListHasNoDf)
               ELSE LET body == KuzuBody(req[r].t.last, req[r].result.keys, req[r].result.rows)
                    IN  [Log(req[r], "result", body) EXCEPT !.ret_val = body, !.pc = "return"]]
  /\ UNCHANGED <<env, startEnv, db, phase, loop, responses, drivers, dbWrites, shutDuring>>

\* ----------------------------------------------------------------------
\* run_mg_cypher_query (lines 130-165) and get_mg_data (lines 168-189)
\* ----------------------------------------------------------------------
\* a with block that leaves the driver as it is
DriverExitLeaking(ds, id) == ds

\* verify_connectivity() on a server that cannot be reached
Unreachable == Exc("ServiceUnavailable", "Couldn't connect to localhost:7687")

\* leaving the with block of line 148: client.close()
DriverExit(ds, id) == [ds EXCEPT ![id].open = FALSE]

MgRequest(r, q) ==
  /\ Accepting
  /\ loop = 0
  /\ req[r].pc = "idle"
  /\ req' = [req EXCEPT ![r] = Enter(r, "mg", q, "mg_driver")]
  /\ loop' = r
  /\ UNCHANGED <<env, startEnv, db, phase, responses, drivers, dbWrites, shutDuring>>

\* a handler whose address was fixed when the service started
MgDriverStartupEndpoint(r) ==
  /\ loop = r
  /\ req[r].pc = "mg_driver"
  /\ LET uri == HostName(startEnv)
         c   == DriverCreate(uri)
     IN  IF c.ok
         THEN /\ drivers' = Append(drivers, [owner |-> r, uri |-> uri, open |-> TRUE])
              /\ req' = [req EXCEPT ![r].client = Len(drivers) + 1, ![r].pc = "mg_verify"]
         ELSE /\ req' = [req EXCEPT ![r] = Raise(req[r], c.exc)]
              /\ UNCHANGED drivers
  /\ UNCHANGED <<env, startEnv, db, phase, loop, responses, dbWrites, shutDuring>>

\* lines 144-148: build the address from the environment, create a driver
MgDriver(r) ==
  /\ loop = r
  /\ req[r].pc = "mg_driver"
  /\ LET uri == HostName(env)
         c   == DriverCreate(uri)
     IN  IF c.ok
         THEN /\ drivers' = Append(drivers, [owner |-> r, uri |-> uri, open |-> TRUE])
              /\ req' = [req EXCEPT ![r].client = Len(drivers) + 1, ![r].pc = "mg_verify"]
         ELSE /\ req' = [req EXCEPT ![r] = Raise(req[r], c.exc)]
              /\ UNCHANGED drivers
  /\ UNCHANGED <<env, startEnv, db, phase, loop, responses, dbWrites, shutDuring>>

\* a handler that goes on to the query without checking the connection
MgVerifySkipped(r) ==
  /\ loop = r
  /\ req[r].pc = "mg_verify"
  /\ req' = [req EXCEPT ![r].pc = "mg_query"]
  /\ UNCHANGED <<env, startEnv, db, phase, loop, responses, drivers, dbWrites, shutDuring>>

\* line 150: client.verify_connectivity()
MgVerify(r) ==
  /\ loop = r
  /\ req[r].pc = "mg_verify"
  /\ \E up \in BOOLEAN :
       IF up
       THEN /\ req' = [req EXCEPT ![r].verified = TRUE, ![r].pc = "mg_query"]
            /\ UNCHANGED drivers
       ELSE /\ req' = [req EXCEPT ![r] =
                         Raise(req[r], Unreachable)]
            /\ drivers' = DriverExit(drivers, req[r].client)
  /\ UNCHANGED <<env, startEnv, db, phase, loop, responses, dbWrites, shutDuring>>

\* lines 176-183: log the query, start the timer and call
\* client.execute_query(query); the call is synchronous, so the event loop
\* stays with this request while the server works
MgQuery(r) ==
  /\ loop = r
  /\ req[r].pc = "mg_query"
  /\ req' = [req EXCEPT ![r] =
               [Log(req[r], "query", <<QueryArg(req[r])>>)
                  EXCEPT !.t = TimerStart(NewTimer), !.sent = QueryArg(req[r]),
                         !.pc = "mg_wait"]]
  /\ UNCHANGED <<env, startEnv, db, phase, loop, responses, drivers, dbWrites, shutDuring>>

\* line 183 returns or raises; leaving the with block of line 182 stops the
\* timer either way, and an exception also leaves the with block of line 148
MgAnswer(r) ==
  /\ loop = r
  /\ req[r].pc = "mg_wait"
  /\ \E d \in Durations :
       LET out == MgExecute(req[r].sent)
           rq  == [req[r] EXCEPT !.t = TimerStop(@, d)]
       IN  IF out.kind = "raise"
           THEN /\ req' = [req EXCEPT ![r] = Raise(rq, out.exc)]
                /\ drivers' = DriverExit(drivers, req[r].client)
           ELSE /\ req' = [req EXCEPT ![r] = [rq EXCEPT !.result = out, !.pc = "mg_format"]]
                /\ UNCHANGED drivers
  /\ UNCHANGED <<env, startEnv, db, phase, loop, responses, dbWrites, shutDuring>>

\* lines 186-189, then the with block of line 148 is left
MgFormat(r) ==
  /\ loop = r
  /\ req[r].pc = "mg_format"
  /\ req' = [req EXCEPT ![r].ret_val = MgBody(req[r].t.last, req[r].result.keys,
                                              req[r].result.rows),
                        ![r].pc = "return"]
  /\ drivers' = DriverExit(drivers, req[r].client)
  /\ UNCHANGED <<env, startEnv, db, phase, loop, responses, dbWrites, shutDuring>>

\* ----------------------------------------------------------------------
\* Specification
\* ----------------------------------------------------------------------
Next ==
  \/ Startup
  \/ Shutdown
  \/ \E r \in Req, q \in Queries : KuzuRequest(r, q)
  \/ \E r \in Req : KuzuConnect(r)
  \/ \E r \in Req : KuzuSubmit(r)
  \/ \E r \in Req : KuzuResume(r)
  \/ \E r \in Req : KuzuFormat(r)
  \/ \E r \in Req, q \in Queries : MgRequest(r, q)
  \/ \E r \in Req : MgDriver(r)
  \/ \E r \in Req : MgVerify(r)
  \/ \E r \in Req : MgQuery(r)
  \/ \E r \in Req : MgAnswer(r)
  \/ \E r \in Req : MgFormat(r)
  \/ \E r \in Req : Except(r)
  \/ \E r \in Req : Return(r)

Spec == Init /\ [][Next]_vars

\* the event loop runs a coroutine that holds it up to its next suspension
\* or its return; nothing is assumed about how long the engine takes
Run(r) ==
  \/ KuzuConnect(r) \/ KuzuSubmit(r) \/ KuzuFormat(r)
  \/ MgDriver(r) \/ MgVerify(r) \/ MgQuery(r) \/ MgAnswer(r) \/ MgFormat(r)
  \/ Except(r) \/ Return(r)

\* the runs with the default environment, under that scheduling
FairInit ==
  /\ env = DefaultEnv
  /\ startEnv = env
  /\ db = Database(MemoryPath)
  /\ phase = "init"
  /\ loop = 0
  /\ req = [r \in Req |-> IdleReq]
  /\ responses = [r \in Req |-> << >>]
  /\ drivers = << >>
  /\ dbWrites = 0
  /\ shutDuring = {}

FairSpec == FairInit /\ [][Next]_vars /\ \A r \in Req : WF_vars(Run(r))

\* ----------------------------------------------------------------------
\* The environment changed while the service runs
\* ----------------------------------------------------------------------
\* os.getenv (lines 44, 144) reads os.environ, the mutable environment of
\* the process; the values it holds after a change made once the service
\* is serving
ChangedEnv ==
  [KUZU_DB_PATH |-> "/data/other", MEMGRAPH_DB_HOST |-> "memgraph", MEMGRAPH_DB_PORT |-> "7688"]

SetEnv ==
  /\ phase = "serving"
  /\ env = startEnv
  /\ env' = ChangedEnv
  /\ UNCHANGED <<startEnv, db, phase, loop, req, responses, drivers, dbWrites, shutDuring>>

EnvInit ==
  /\ env = DefaultEnv
  /\ startEnv = env
  /\ db = Database(MemoryPath)
  /\ phase = "init"
  /\ loop = 0
  /\ req = [r \in Req |-> IdleReq]
  /\ responses = [r \in Req |-> << >>]
  /\ drivers = << >>
  /\ dbWrites = 0
  /\ shutDuring = {}

EnvNext == Next \/ SetEnv

EnvSpec == EnvInit /\ [][EnvNext]_vars

TypeOK ==
  /\ env \in EnvChoices
  /\ startEnv \in EnvChoices
  /\ db \in {None, Database(MemoryPath), Database(ModuleDir), Database("/data/kuzu")}
  /\ phase \in {"init", "serving", "stopped", "failed"}
  /\ loop \in {0} \cup Req
  /\ dbWrites \in 0..2
  /\ shutDuring \subseteq Req
  /\ \A r \in Req : req[r].status_code \in {0, 200, 500} /\ Len(responses[r]) <= 1

\* ----------------------------------------------------------------------
\* Properties
\* ----------------------------------------------------------------------
Done(r) == req[r].pc = "done"
Resp(r) == responses[r][1]

\* the queries both engines answer with a table
OkQueries == {Q_Return1, Q_Match}

\* C1: every request returns exactly one response, with status 200 or 500:
\* 200 carries the text that starts with the elapsed-time header and is
\* returned only when nothing was raised; 500 carries the prefix
\* "Exception: Request failure." followed by the description of what was
\* raised, and is returned only when something was raised; no request is
\* left without its response by an exception, and no response holds both.
C1_OneResponse200Or500 ==
  \A r \in Req :
    /\ req[r].pc # "crashed"
    /\ Len(responses[r]) = (IF Done(r) THEN 1 ELSE 0)
    /\ Done(r) =>
         /\ Resp(r).status_code \in {200, 500}
         /\ Resp(r).status_code = 200 <=> req[r].exc = NoExc
         /\ Resp(r).status_code = 200 =>
              /\ req[r].result.kind = "table"
              /\ Resp(r).content[1] = "Elapsed time: "
              /\ \A i \in 1..Len(Resp(r).content) : Resp(r).content[i] # Prefix
         /\ Resp(r).status_code = 500 =>
              Resp(r).content = <<"Exception: Request failure.", " ", req[r].exc.msg>>

C1_Witness ==
  \E r1, r2 \in Req :
    /\ Done(r1) /\ Resp(r1).status_code = 200
    /\ Done(r2) /\ Resp(r2).status_code = 500
    /\ req[r1].kind # req[r2].kind

\* the backend accepts the query of request r: the connection was
\* obtained and the engine answers the query with a table
Accepted(r) ==
  /\ req[r].query \in OkQueries
  /\ req[r].kind = "kuzu" => req[r].seenDb.open
  /\ req[r].kind = "mg" => req[r].exc.type \notin {"ValueError", "ServiceUnavailable"}

\* C2: no failure leaves the handler, a request that fails leaves the
\* handle as it was, and a request that starts after another one was
\* answered 500 is served as usual: 200 if the backend accepts its query.
C2_FailureContained ==
  /\ [](\A r \in Req :
          /\ req[r].pc # "crashed"
          /\ (Done(r) /\ req[r].afterFailure) =>
               (Resp(r).status_code = (IF Accepted(r) THEN 200 ELSE 500)))
  /\ [][\A r \in Req :
          (req[r].pc = "raised" \/ req'[r].pc = "raised"
             \/ (req[r].pc = "return" /\ req[r].status_code = 500))
          => db' = db]_vars

C2_Witness ==
  \E r1, r2 \in Req :
    /\ Done(r1) /\ Resp(r1).status_code = 500
    /\ Done(r2) /\ req[r2].afterFailure /\ Resp(r2).status_code = 200
    /\ db # None

\* C3: an embedded request that finds the handle Absent never reaches the
\* point where it would wait for the engine: it keeps the event loop until
\* it returns, it is never answered 200, and it does return, with 500.
C3_AbsentGives500 ==
  /\ [](\A r \in Req :
          (req[r].kind = "kuzu" /\ req[r].readsDb > 0 /\ req[r].seenDb = None) =>
            /\ req[r].pc \in {"raised", "return", "done"}
            /\ req[r].pc # "done" => loop = r
            /\ req[r].pc = "return" => req[r].status_code = 500
            /\ Done(r) => Resp(r).status_code = 500 /\ Resp(r).content[1] = Prefix)
  /\ \A r \in Req :
       (req[r].pc = "kz_conn" /\ db = None) ~> (Done(r) /\ Resp(r).status_code = 500)

C3_Witness ==
  \E r \in Req :
    /\ req[r].kind = "kuzu" /\ req[r].seenDb = None /\ req[r].readsDb = 1
    /\ Done(r) /\ Resp(r).status_code = 500
    /\ phase = "stopped"

\* C4: the body of a 200 response is "Elapsed time: ", the elapsed seconds
\* rounded to 4 decimal places, "s", a newline, and the table with columns
\* and rows in the order the backend returned them, for both backends.
C4_HeaderNewlineTable ==
  \A r \in Req :
    (Done(r) /\ Resp(r).status_code = 200) =>
      Resp(r).content =
        <<"Elapsed time: ">> \o FloatStr(Round4(req[r].t.last)) \o <<"s", "\n">>
          \o to_string(req[r].result.keys, req[r].result.rows)

C6_OpenBeforeServing ==
  /\ [](\A r \in Req :
          /\ req[r].pc # "idle" => phase \in {"serving", "stopped"}
          /\ req[r].readsDb > 0 => req[r].seenDb # Database(MemoryPath)
          /\ phase = "failed" => req[r].pc = "idle" /\ responses[r] = << >>)
  /\ [][phase = "failed" => phase' = "failed" /\ req' = req /\ responses' = responses]_vars

C6_Witness == phase = "failed" /\ db = Database(MemoryPath) /\ dbWrites = 0

\* C7: a request that was waiting for the engine when shutdown cleared the
\* handle keeps a live connection on the database it found and is answered
\* as the engine answers its query (200 with a table, or 500 with the
\* prefix); a request that reads the handle after shutdown finds Absent and
\* is answered 500 with the prefix; no embedded request is left by an
\* exception or answered anything else.
C7_ShutdownInFlight ==
  \A r \in Req :
    req[r].kind = "kuzu" =>
      /\ req[r].pc # "crashed"
      /\ req[r].readsDb > 0 => req[r].seenDb \in {None, Database(ConfiguredPath)}
      /\ r \in shutDuring =>
           /\ req[r].seenDb = Database(ConfiguredPath)
           /\ req[r].db_conn = [database |-> req[r].seenDb, live |-> TRUE]
           /\ Done(r) => Resp(r).status_code = (IF req[r].query \in OkQueries THEN 200 ELSE 500)
      /\ Done(r) =>
           /\ Resp(r).status_code \in {200, 500}
           /\ req[r].seenDb = None => Resp(r).status_code = 500
           /\ Resp(r).status_code = 500 => Resp(r).content[1] = Prefix
           /\ Resp(r).status_code = 200 => Resp(r).content[1] = "Elapsed time: "

C7_Witness ==
  \E r1, r2 \in Req :
    /\ r1 \in shutDuring /\ Done(r1) /\ Resp(r1).status_code = 200
    /\ r2 \notin shutDuring /\ req[r2].kind = "kuzu" /\ req[r2].seenDb = None
    /\ Done(r2) /\ Resp(r2).status_code = 500

InWith(r) ==
  req[r].kind = "mg" /\ req[r].pc \in {"mg_verify", "mg_query", "mg_wait", "mg_format"}

\* C8: every driver belongs to the one remote request that created it and
\* is that request's only driver; it is open only while that request is
\* inside its with block, so it is closed on every way out (success, query
\* failure, connectivity failure) and no request ever holds a driver of
\* another request.
C8_DriverPerRequest ==
  /\ \A i \in 1..Len(drivers) :
       LET o == drivers[i].owner
       IN  /\ req[o].kind = "mg" /\ req[o].client = i
           /\ drivers[i].open <=> (InWith(o) /\ loop = o)
  /\ \A r \in Req :
       /\ InWith(r) => req[r].client \in 1..Len(drivers)
       /\ req[r].client # 0 => drivers[req[r].client].owner = r
       /\ (req[r].kind = "mg" /\ Done(r) /\ req[r].exc.type # "ValueError") => req[r].client # 0
       /\ Done(r) => \A i \in 1..Len(drivers) : drivers[i].owner = r => ~drivers[i].open

C8_Witness ==
  \E r1, r2 \in Req :
    /\ Done(r1) /\ req[r1].client # 0 /\ Resp(r1).status_code = 200
    /\ Done(r2) /\ req[r2].client # 0 /\ req[r2].exc = Unreachable
    /\ req[r1].client # req[r2].client
    /\ \A i \in 1..Len(drivers) : ~drivers[i].open

\* the response of the embedded endpoint to query q when it runs alone on
\* handle database and the engine takes last
SerialKuzu(database, q, last) ==
  LET c == AsyncConnection(database)
  IN  IF ~c.ok THEN [status_code |-> 500, content |-> ErrorBody(c.exc)]
      ELSE LET out == KuzuExecute(c.conn, q)
           IN  IF out.kind = "raise" THEN [status_code |-> 500, content |-> ErrorBody(out.exc)]
               ELSE IF out.kind = "list"
                 THEN [status_code |-> 500, content |-> ErrorBody(ListHasNoDf)]
               ELSE [status_code |-> 200, content |-> KuzuBody(last, out.keys, out.rows)]

\* the response of the remote endpoint to query q when it runs alone, the
\* server being reachable or not
SerialMg(e, up, q, last) ==
  LET c == DriverCreate(HostName(e))
  IN  IF ~c.ok THEN [status_code |-> 500, content |-> ErrorBody(c.exc)]
      ELSE IF ~up THEN [status_code |-> 500, content |-> ErrorBody(Unreachable)]
      ELSE LET out == MgExecute(q)
           IN  IF out.kind = "raise" THEN [status_code |-> 500, content |-> ErrorBody(out.exc)]
               ELSE [status_code |-> 200, content |-> MgBody(last, out.keys, out.rows)]

\* C9: whatever the interleaving, the response of a request is the one its
\* own query gets when it runs alone (with the elapsed time of its own
\* timer), its connection is on the handle it read itself, and its driver
\* is its own.
C9_OwnResultAsSerial ==
  \A r \in Req :
    /\ req[r].db_conn.live => req[r].db_conn.database = req[r].seenDb
    /\ req[r].client # 0 => drivers[req[r].client].owner = r
    /\ Done(r) =>
         Resp(r) = IF req[r].kind = "kuzu"
                   THEN SerialKuzu(req[r].seenDb, req[r].query, req[r].t.last)
                   ELSE SerialMg(env, req[r].exc # Unreachable, req[r].query, req[r].t.last)

C9_Witness ==
  \E r1, r2 \in Req :
    /\ r1 # r2 /\ req[r1].overlap /\ req[r2].overlap
    /\ req[r1].query # req[r2].query
    /\ Done(r1) /\ Resp(r1).status_code = 200
    /\ Done(r2) /\ Resp(r2).status_code = 200

\* C10: the handle changes exactly when lifespan assigns it: once at
\* startup and once at shutdown, so twice in a complete life (not at all
\* when startup fails); a step of a handler or of a helper never changes
\* it.
C10_HandleWrittenTwice ==
  /\ [](dbWrites = (CASE phase \in {"init", "failed"} -> 0
                      [] phase = "serving" -> 1
                      [] OTHER -> 2))
  /\ [][/\ db' # db <=> dbWrites' = dbWrites + 1
        /\ dbWrites' \in {dbWrites, dbWrites + 1}
        /\ db' # db => (phase' # phase /\ req' = req /\ responses' = responses /\ loop = 0)
        /\ (req' # req \/ responses' # responses \/ drivers' # drivers) => db' = db]_vars

C10_Witness ==
  /\ phase = "stopped" /\ dbWrites = 2
  /\ \E r1, r2 \in Req :
       /\ Done(r1) /\ req[r1].kind = "kuzu" /\ req[r1].readsDb = 1
       /\ Done(r2) /\ req[r2].kind = "mg"

\* the path lifespan read at startup
StartPath == Getenv(startEnv, "KUZU_DB_PATH", ModuleDir)

\* C11: the step of an embedded request that reads the handle finds either
\* the database that startup opened at the configured path, published by
\* the one assignment that follows the completed open, or Absent, published
\* by shutdown; the value a request holds as read is never anything else.
C11_ReadsOpenOrAbsent ==
  /\ [](\A r \in Req :
          req[r].readsDb > 0 => req[r].seenDb \in {None, Database(StartPath)})
  /\ [][\A r \in Req :
          req'[r].readsDb # req[r].readsDb =>
            /\ req'[r].seenDb = db
            /\ \/ phase = "serving" /\ dbWrites = 1 /\ db = Database(StartPath)
               \/ phase = "stopped" /\ dbWrites = 2 /\ db = None]_vars

C11_Witness ==
  \E r1, r2 \in Req :
    /\ req[r1].pc = "kz_await" /\ req[r1].readsDb = 1 /\ req[r1].seenDb = Database(StartPath)
    /\ req[r2].pc = "raised" /\ req[r2].readsDb = 1 /\ req[r2].seenDb = None

\* C12: every request logs its query text before the backend executes it
\* and, once the request is over, has logged after it the formatted result
\* (when answered 200) or the failure (when answered 500), on every path.
C12_QueryThenOutcomeLogged ==
  \A r \in Req :
    /\ req[r].sent # NotSent =>
         (Len(req[r].log) >= 1 /\ req[r].log[1] = [what |-> "query", text |-> <<req[r].query>>])
    /\ Done(r) =>
         /\ Len(req[r].log) >= 2
         /\ req[r].log[1] = [what |-> "query", text |-> <<req[r].query>>]
         /\ req[r].log[Len(req[r].log)] =
              IF Resp(r).status_code = 200
              THEN [what |-> "result", text |-> Resp(r).content]
              ELSE [what |-> "failure", text |-> <<Prefix, req[r].exc.msg>>]

\* C13: the string handed to the backend is the query string of the
\* request itself, unchanged, for both backends and for each of the query
\* strings, and the answer the request holds is the backend's answer to
\* that very string.
C13_QueryVerbatim ==
  \A r \in Req :
    /\ req[r].sent \in {NotSent, req[r].query}
    /\ req[r].pc \in {"kz_await", "kz_format", "mg_wait", "mg_format"} =>
         req[r].sent = req[r].query
    /\ req[r].pc = "kz_format" => req[r].result = KuzuExecute(req[r].db_conn, req[r].query)
    /\ req[r].pc = "mg_format" => req[r].result = MgExecute(req[r].query)

C13_Witness ==
  \E r1, r2 \in Req :
    /\ req[r1].kind = "kuzu" /\ Done(r1) /\ req[r1].sent = Q_Multi
    /\ req[r2].kind = "mg" /\ Done(r2) /\ req[r2].sent = Q_Multi

\* C14: a remote request hands its query to the server and starts its
\* timer only after its driver was created and its connectivity check
\* passed; when the driver cannot be created or the check fails, the query
\* is never sent, the timer is never started, and the request is answered
\* 500 with the prefix and the description of the connection failure.
C14_VerifyBeforeQuery ==
  \A r \in Req :
    req[r].kind = "mg" =>
      /\ (req[r].sent # NotSent \/ req[r].t.starts > 0) =>
           (req[r].verified /\ req[r].client # 0)
      /\ req[r].verified => req[r].client # 0
      /\ req[r].exc.type \in {"ValueError", "ServiceUnavailable"} =>
           /\ req[r].sent = NotSent
           /\ req[r].t = NewTimer
           /\ ~req[r].verified
           /\ Done(r) => Resp(r) = [status_code |-> 500,
                                    content |-> <<Prefix, " ", req[r].exc.msg>>]

C14_Witness ==
  \E r1, r2 \in Req :
    /\ req[r1].kind = "mg" /\ Done(r1) /\ req[r1].exc = Unreachable
    /\ req[r1].sent = NotSent /\ Resp(r1).status_code = 500
    /\ req[r2].kind = "mg" /\ req[r2].pc = "mg_wait" /\ req[r2].verified

\* the positions of a handler inside its timed region (the with block of
\* lines 119-121 and 182-183)
Timed(r) == req[r].pc \in {"kz_await", "mg_wait"}

\* C15: the timer of a request is started at most once and is running
\* exactly while the request is in its timed region; once the region is
\* left, by a result or by an exception, the timer has been stopped exactly
\* once and holds the measured time, and a 500 response holds the prefix and
\* the description only, not that time.
C15_TimerStoppedOnce ==
  \A r \in Req :
    /\ req[r].t.starts \in {0, 1}
    /\ req[r].t.stops = (IF req[r].t.running THEN req[r].t.starts - 1 ELSE req[r].t.starts)
    /\ req[r].t.running <=> Timed(r)
    /\ req[r].t.stops = 1 => req[r].t.last \in Durations
    /\ req[r].pc \in {"kz_format", "mg_format"} => req[r].t.stops = 1
    /\ (Done(r) /\ Resp(r).status_code = 500) =>
         Resp(r).content = <<Prefix, " ", req[r].exc.msg>>

C15_Witness ==
  \E r1, r2 \in Req :
    /\ req[r1].kind = "kuzu" /\ Done(r1) /\ Resp(r1).status_code = 500
    /\ req[r1].t.starts = 1 /\ req[r1].t.stops = 1
    /\ req[r2].kind = "mg" /\ Done(r2) /\ Resp(r2).status_code = 500
    /\ req[r2].t.starts = 1 /\ req[r2].t.stops = 1

HasLogged(r, what) == \E i \in 1..Len(req[r].log) : req[r].log[i].what = what

\* C16: the timer is started only once the request holds its connection
\* (embedded) or its verified driver (remote), it changes only on entering
\* and on leaving the timed region, and while it runs, and still when it has
\* just been stopped, nothing of what follows the execution has happened:
\* no text has been built, no result has been logged, and the driver of a
\* remote request is still open.  The text is built with the timer stopped.
C16_TimedRegionIsExecution ==
  /\ [](\A r \in Req :
          /\ req[r].t.starts > 0 =>
               /\ req[r].kind = "kuzu" => (req[r].db_conn.live /\ req[r].readsDb = 1)
               /\ req[r].kind = "mg" => (req[r].verified /\ req[r].client # 0)
          /\ (Timed(r) \/ req[r].pc \in {"kz_format", "mg_format"}) =>
               /\ req[r].ret_val = << >>
               /\ ~HasLogged(r, "result")
               /\ req[r].kind = "mg" => drivers[req[r].client].open
          /\ Timed(r) => req[r].result = NoResult
          /\ req[r].ret_val # << >> => ~req[r].t.running)
  /\ [][\A r \in Req :
          req'[r].t # req[r].t =>
            /\ Timed(r) # Timed(r)'
            /\ req'[r].ret_val = req[r].ret_val
            /\ req'[r].db_conn = req[r].db_conn
            /\ req'[r].client = req[r].client]_vars

C16_Witness ==
  \E r1, r2 \in Req :
    /\ req[r1].pc = "kz_format" /\ req[r1].t.stops = 1 /\ req[r1].ret_val = << >>
    /\ req[r2].kind = "mg" /\ Done(r2) /\ Resp(r2).status_code = 200 /\ req[r2].t.stops = 1

\* C17: while a request of either kind is waiting for its backend
\* execution to finish, any other request that is waiting for the engine
\* can be resumed and go on to its response.
C17_ExecutionSuspends ==
  \A r1, r2 \in Req :
    (r1 # r2 /\ Timed(r1) /\ req[r2].pc = "kz_await") => ENABLED KuzuResume(r2)

\* C19: an embedded request reads the global handle once, in the step that
\* makes its connection, while it holds the event loop and before it waits
\* for the engine; from then on its connection stays on the handle it read,
\* and a request that read an Open handle is answered as the engine answers
\* its query (200 when the engine accepts it), also when shutdown has
\* cleared the global handle in the meantime.
C19_HandleReadOnce ==
  /\ [](\A r \in Req :
          req[r].kind = "kuzu" =>
            /\ req[r].readsDb = (IF req[r].pc = "kz_conn" THEN 0 ELSE 1)
            /\ req[r].db_conn.live => (req[r].seenDb.open /\ req[r].db_conn.database = req[r].seenDb)
            /\ (Done(r) /\ req[r].seenDb.open) =>
                 Resp(r).status_code = (IF req[r].query \in OkQueries THEN 200 ELSE 500))
  /\ [][\A r \in Req :
          /\ req'[r].readsDb # req[r].readsDb =>
               (req[r].pc = "kz_conn" /\ loop = r /\ req'[r].pc # "kz_await")
          /\ req[r].db_conn.live => req'[r].db_conn = req[r].db_conn]_vars

C19_Witness ==
  \E r \in Req :
    /\ r \in shutDuring /\ db = None /\ req[r].readsDb = 1
    /\ req[r].query = Q_Match /\ Done(r) /\ Resp(r).status_code = 200
    /\ req[r].db_conn.database = Database(StartPath)

\* C18 as stated: every remote request connects to the endpoint that the
\* environment named when the service started, whatever the environment
\* says when the request runs.
C18_EndpointFixedAtStartup ==
  \A i \in 1..Len(drivers) : drivers[i].uri = HostName(startEnv)

\* C18, amended: the database path is read once, at startup, so the handle
\* stays on the path read then and a change of the environment writes
\* neither the handle nor a connection; the remote address is read from the
\* environment by each remote request when it creates its driver, so a
\* driver is created for the host and port the environment names at that
\* moment.
C18_PathAtStartupEndpointPerRequest ==
  /\ [](phase = "serving" => db = Database(StartPath))
  /\ [][/\ env' # env => (db' = db /\ drivers' = drivers /\ startEnv' = startEnv)
        /\ Len(drivers') > Len(drivers) =>
             drivers'[Len(drivers')].uri = HostName(env)]_vars

C18_Witness ==
  /\ phase = "serving"
  /\ env = ChangedEnv
  /\ db = Database(StartPath)
  /\ ConfiguredPath # StartPath
  /\ \E i \in 1..Len(drivers) :
       /\ drivers[i].uri = HostName(ChangedEnv)
       /\ drivers[i].uri # HostName(startEnv)
       /\ Done(drivers[i].owner)

====
